---- MODULE Spec2Model ----
(***************************************************************************)
(* A model of latexbible.py: the even allocation of verses over days       *)
(* (generate_schedule_csv), the retrying fetcher                           *)
(* (get_sefaria_verse_entries) and the resumable document assembly         *)
(* (generate_latex_from_schedule) with process termination and restart.    *)
(*                                                                         *)
(* Three specifications share the module: SpecAlloc, SpecFetch and Spec    *)
(* (the assembler).  Each one moves its own variables and leaves the       *)
(* others at their idle values.  SpecRun is the assembler's first run when *)
(* nothing ends it from outside.                                           *)
(***************************************************************************)
EXTENDS Integers, Sequences, FiniteSets, TLC

VARIABLES
    \* ---- generate_schedule_csv
    a_pc,           \* position in the allocation code
    all_verses,     \* the flat unit list
    total_days,     \* (end - start).days + 1
    daily_counts,   \* list of per-day counts
    portions,       \* list of per-day unit lists
    idx,            \* running start index of the next slice
    a_i,            \* loop variable of the two loops
    csv,            \* the exported schedule file
    \* ---- get_sefaria_verse_entries
    f_pc,           \* position in the fetcher
    subs,           \* number of sub-references of ref.split(',')
    sub_i,          \* 1-based index of the sub-reference being fetched
    attempt,        \* loop variable of the retry loop
    res,            \* the local variable res (kept across sub-references)
    verse_entries,  \* the result list
    origin,         \* history: sub-reference each entry of verse_entries came from
    requests,       \* history: GET requests issued per sub-reference
    got200,         \* history: sub-reference obtained a status-200 response
    reqAtOk,        \* history: requests issued up to the first 200 response
    payloadOf,      \* history: the body of the 200 response of each sub-reference
    parseFailed,    \* history: the except branch of the parse ran for the sub-reference
    sleeps,         \* history: the time.sleep calls, <<sub-reference, attempt, seconds>>
    \* ---- generate_latex_from_schedule
    pc,             \* position of the process
    df,             \* the schedule rows read from csv_path
    net,            \* what the fetcher returns for each row's reference
    last,           \* last completed row index loaded at start
    tex,            \* the accumulated document
    row_i,          \* loop variable i
    verses,         \* result of the fetch of the current row
    checkpoint,     \* file tex_path + ".checkpoint"
    progress,       \* file tex_path + ".progress"
    tex_file,       \* file tex_path
    runs,           \* history: number of runs started
    unclean,        \* history: some termination fell outside the window between two days
    cleanWindow,    \* history: both writes of a day < N-1 are done, the next day's have not begun
    runFetched,     \* history: rows fetched by the current run, in order
    runEvents,      \* history: fetches and completed writes of the current run, in order
    runStartedBare, \* history: the current run found neither marker
    runOpenedCkpt,  \* history: the current run has opened the checkpoint file for writing
    wroteFinal      \* history: the current run completed the write of tex_path

allocVars == <<a_pc, all_verses, total_days, daily_counts, portions, idx, a_i, csv>>
fetchVars == <<f_pc, subs, sub_i, attempt, res, verse_entries, origin, requests,
               got200, reqAtOk, payloadOf, parseFailed, sleeps>>
asmVars == <<pc, df, net, last, tex, row_i, verses, checkpoint, progress, tex_file,
             runs, unclean, cleanWindow, runFetched, runEvents, runStartedBare,
             runOpenedCkpt, wroteFinal>>
vars == <<allocVars, fetchVars, asmVars>>

\* ------------------------------------------------------------------ bounds
MaxUnits == 10
MaxDays == 4
MaxNegDays == 2
MaxSubs == 2
MaxRows == 3
MaxRuns == 3

\* ------------------------------------------------------- Python arithmetic
\* a // b of Python (floor division), for a >= 0 and b # 0.
PyFloorDiv(a, b) ==
    IF b > 0 THEN a \div b ELSE 0 - ((a + (0 - b) - 1) \div (0 - b))

\* a % b of Python: the sign of the result follows the divisor.
PyMod(a, b) == a - b * PyFloorDiv(a, b)

\* [x] * n of Python: the empty list for n <= 0.
PyRepeat(x, n) == [j \in 1..n |-> x]

PySliceMut(s, lo, hi) ==
    [j \in 1..((IF hi < Len(s) THEN hi ELSE Len(s)) - lo - 1) |-> s[lo + j]]

\* s[lo:hi] of Python for 0 <= lo <= hi: 0-based, hi exclusive, clamped to len(s).
PySlice(s, lo, hi) ==
    [j \in 1..((IF hi < Len(s) THEN hi ELSE Len(s)) - lo) |-> s[lo + j]]

RECURSIVE Flatten(_)
Flatten(ss) == IF ss = <<>> THEN <<>> ELSE Head(ss) \o Flatten(Tail(ss))

\* ---------------------------------------------------------------- idle values
AllocIdle ==
    /\ a_pc = "idle" /\ all_verses = <<>> /\ total_days = 1 /\ daily_counts = <<>>
    /\ portions = <<>> /\ idx = 0 /\ a_i = 0
    /\ csv = [exists |-> FALSE, rows |-> <<>>]

\* ------------------------------------------------- generate_schedule_csv
\* Lines 86-92 have run: a unit list of any length 0..MaxUnits and a day
\* count.  The dates of lines 75-76 give a positive count; the allocation of
\* lines 93-116 has no guard of its own and is followed here for every
\* count from -MaxNegDays to MaxDays.
AllocInit ==
    /\ a_pc = "counts"
    /\ \E u \in 0..MaxUnits : all_verses = [j \in 1..u |-> j]
    /\ total_days \in (0 - MaxNegDays)..MaxDays
    /\ daily_counts = <<>>
    /\ portions = <<>>
    /\ idx = 0
    /\ a_i = 0
    /\ csv = [exists |-> FALSE, rows |-> <<>>]

\* line 93 with total_days = 0: len(all_verses) // 0 raises ZeroDivisionError,
\* which nothing catches.
DivideByZero ==
    /\ a_pc = "counts"
    /\ total_days = 0
    /\ a_pc' = "raised"
    /\ UNCHANGED <<all_verses, total_days, daily_counts, portions, idx, a_i, csv>>
    /\ UNCHANGED <<fetchVars, asmVars>>

\* line 93: daily_counts = [len(all_verses) // total_days] * total_days
BaseCounts ==
    /\ a_pc = "counts"
    /\ total_days # 0
    /\ daily_counts' = PyRepeat(PyFloorDiv(Len(all_verses), total_days), total_days)
    /\ a_i' = 0
    /\ a_pc' = "leftovers"
    /\ UNCHANGED <<all_verses, total_days, portions, idx, csv>>
    /\ UNCHANGED <<fetchVars, asmVars>>

\* lines 94-95: one iteration of the loop over range(len(all_verses) % total_days)
Leftover ==
    /\ a_pc = "leftovers"
    /\ a_i < PyMod(Len(all_verses), total_days)
    /\ daily_counts' = [daily_counts EXCEPT ![a_i + 1] = @ + 1]
    /\ a_i' = a_i + 1
    /\ UNCHANGED <<a_pc, all_verses, total_days, portions, idx, csv>>
    /\ UNCHANGED <<fetchVars, asmVars>>

\* the loop of lines 94-95 ends; lines 97-98
LeftoversDone ==
    /\ a_pc = "leftovers"
    /\ ~(a_i < PyMod(Len(all_verses), total_days))
    /\ portions' = <<>>
    /\ idx' = 0
    /\ a_i' = 0
    /\ a_pc' = "portions"
    /\ UNCHANGED <<all_verses, total_days, daily_counts, csv>>
    /\ UNCHANGED <<fetchVars, asmVars>>

\* lines 99-103: one iteration of the loop over range(total_days)
Portion ==
    /\ a_pc = "portions"
    /\ a_i < total_days
    /\ portions' = Append(portions, PySlice(all_verses, idx, idx + daily_counts[a_i + 1]))
    /\ idx' = idx + daily_counts[a_i + 1]
    /\ a_i' = a_i + 1
    /\ UNCHANGED <<a_pc, all_verses, total_days, daily_counts, csv>>
    /\ UNCHANGED <<fetchVars, asmVars>>

RECURSIVE JoinUnits(_)
\* line 110: ", ".join(verses); the text of no units is empty
JoinUnits(units) ==
    IF Len(units) <= 1 THEN units
    ELSE <<Head(units), ", ">> \o JoinUnits(Tail(units))

\* lines 105-135: the loop of 99-103 has ended; one row per portion, written
\* to csv_path (and the calendar file), csv_path returned.
Export ==
    /\ a_pc = "portions"
    /\ ~(a_i < total_days)
    /\ csv' = [exists |-> TRUE,
               rows |-> [j \in 1..Len(portions) |->
                            [Date |-> j - 1, Bible |-> JoinUnits(portions[j]),
                             Count |-> Len(portions[j])]]]
    /\ a_pc' = "returned"
    /\ UNCHANGED <<all_verses, total_days, daily_counts, portions, idx, a_i>>
    /\ UNCHANGED <<fetchVars, asmVars>>

AllocNext ==
    \/ DivideByZero
    \/ BaseCounts
    \/ Leftover
    \/ LeftoversDone
    \/ Portion
    \/ Export


\* ------------------------------------------------------------------ texts
\* A text is a sequence of one-character strings.
WhiteSpace == {" ", "\t", "\n", "\r"}

IsSpace(c) == c \in WhiteSpace

RECURSIVE FirstIndex(_, _, _)
\* least j >= from with t[j] \in cs, or 0
FirstIndex(t, from, cs) ==
    IF from > Len(t) THEN 0
    ELSE IF t[from] \in cs THEN from
    ELSE FirstIndex(t, from + 1, cs)

RECURSIVE RemoveTags(_)
\* re.sub(r'<.*?>', '', text): a "<" and everything up to the next ">" of
\* the same line ("." matches no line feed)
RemoveTags(t) ==
    IF t = <<>> THEN <<>>
    ELSE IF /\ Head(t) = "<"
            /\ FirstIndex(t, 2, {">", "\n"}) # 0
            /\ t[FirstIndex(t, 2, {">", "\n"})] = ">"
         THEN RemoveTags(SubSeq(t, FirstIndex(t, 2, {">"}) + 1, Len(t)))
         ELSE <<Head(t)>> \o RemoveTags(Tail(t))

RECURSIVE RemoveEntities(_)
\* re.sub(r'&[^;\s]+;', '', text): "&", one or more characters that are
\* neither ";" nor white space, then ";"
RemoveEntities(t) ==
    IF t = <<>> THEN <<>>
    ELSE IF /\ Head(t) = "&"
            /\ FirstIndex(t, 2, {";"} \cup WhiteSpace) >= 3
            /\ t[FirstIndex(t, 2, {";"} \cup WhiteSpace)] = ";"
         THEN RemoveEntities(SubSeq(t, FirstIndex(t, 2, {";"} \cup WhiteSpace) + 1, Len(t)))
         ELSE <<Head(t)>> \o RemoveEntities(Tail(t))

RECURSIVE LStrip(_)
LStrip(t) == IF t # <<>> /\ IsSpace(Head(t)) THEN LStrip(Tail(t)) ELSE t

RECURSIVE RStrip(_)
RStrip(t) ==
    IF t # <<>> /\ IsSpace(t[Len(t)]) THEN RStrip(SubSeq(t, 1, Len(t) - 1)) ELSE t

\* text.strip()
Strip(t) == RStrip(LStrip(t))

remove_html_tags_and_entities(t) == Strip(RemoveEntities(RemoveTags(t)))

RECURSIVE escape_latex_special_chars(_)
\* text.replace('\\', '\\textbackslash{}').replace('_', '\\_'); the replacement
\* of a backslash holds no underscore, so one pass does both.
escape_latex_special_chars(t) ==
    IF t = <<>> THEN <<>>
    ELSE (CASE Head(t) = "\\" -> <<"\\", "textbackslash{}">>
            [] Head(t) = "_" -> <<"\\", "_">>
            [] OTHER -> <<Head(t)>>) \o escape_latex_special_chars(Tail(t))

\* hebrew_letters.get(n, ''): a letter is written as its numeric value
HebrewLetter(n) ==
    IF n \in (1..9) \cup {10, 20, 30, 40, 50, 60, 70, 80, 90} \cup {100, 200, 300, 400}
    THEN <<n>> ELSE <<>>

hebrew_number(num) ==
    IF num = 15 THEN <<9, 6>>
    ELSE IF num = 16 THEN <<9, 7>>
    ELSE LET h == IF num >= 100 THEN HebrewLetter((num \div 100) * 100) ELSE <<>>
             n1 == IF num >= 100 THEN num % 100 ELSE num
             t == IF n1 >= 10 THEN HebrewLetter((n1 \div 10) * 10) ELSE <<>>
             n2 == IF n1 >= 10 THEN n1 % 10 ELSE n1
             o == IF n2 # 0 THEN HebrewLetter(n2) ELSE <<>>
         IN h \o t \o o

\* --------------------------------------------------------- response bodies
\* A response body: kind "bad" is a body res.json() or data.get() raises on;
\* kind "obj" is a JSON object with or without "sections" and "he".
\* heKind: "missing" (no "he" key), "list", "str", "other" (null, a number).
\* An element of a list is a text or not (a number, null, a nested list).
Txt(t) == [isText |-> TRUE, text |-> t]
NonTxt == [isText |-> FALSE, text |-> <<>>]

Body(kind, hasSections, sections, heKind, heStr, heList) ==
    [kind |-> kind, hasSections |-> hasSections, sections |-> sections,
     heKind |-> heKind, heStr |-> heStr, heList |-> heList]

BadBody == Body("bad", FALSE, <<>>, "missing", <<>>, <<>>)

TextA == <<"a">>
TextMarkup == <<" ", "<", "b", ">", "a", "&", "n", ";", "_">>

Bodies ==
    { BadBody,
      Body("obj", TRUE, <<3, 7>>, "list", <<>>, <<Txt(TextA), Txt(TextMarkup)>>),
      Body("obj", TRUE, <<3, 7>>, "str", TextMarkup, <<>>),
      Body("obj", TRUE, <<3, 7>>, "list", <<>>, <<Txt(TextA), NonTxt>>),
      Body("obj", TRUE, <<3, 7>>, "list", <<>>, <<NonTxt, Txt(TextA)>>),
      Body("obj", TRUE, <<3, 7>>, "list", <<>>, <<>>),
      Body("obj", TRUE, <<3, 7>>, "other", <<>>, <<>>),
      Body("obj", TRUE, <<3, 7>>, "missing", <<>>, <<>>),
      Body("obj", TRUE, <<3>>, "list", <<>>, <<Txt(TextA)>>),
      Body("obj", FALSE, <<>>, "list", <<>>, <<Txt(TextA)>>) }

RECURSIVE TextPrefixLen(_)
\* number of leading elements of a list that are texts
TextPrefixLen(l) ==
    IF l = <<>> \/ ~Head(l).isText THEN 0 ELSE 1 + TextPrefixLen(Tail(l))

SectionOfMut(b) == <<1, 1>>

\* lines 157-159: data.get("sections", [1, 1]) and data.get("he", [])
SectionOf(b) == IF b.hasSections THEN b.sections ELSE <<1, 1>>
HeKindOf(b) == IF b.heKind = "missing" THEN "list" ELSE b.heKind

\* lines 156-168 on body b: the entries appended to verse_entries and whether
\* the except branch ran.  Lines 161-163 append one element at a time, so the
\* entries appended before an element raises stay in the list.
ParseBody(b) ==
    LET section == SectionOf(b) IN
    IF b.kind = "bad" THEN [entries |-> <<>>, failed |-> TRUE]
    ELSE IF HeKindOf(b) = "list" THEN
        IF Len(section) < 2 THEN [entries |-> <<>>, failed |-> TRUE]
        ELSE LET n == TextPrefixLen(b.heList)
                 raised == n < Len(b.heList)
                 done == [j \in 1..n |->
                            <<section[1], section[2] + j - 1,
                              remove_html_tags_and_entities(b.heList[j].text)>>]
             IN [entries |-> done, failed |-> raised]
    ELSE IF b.heKind = "str" THEN
        IF Len(section) < 2 THEN [entries |-> <<>>, failed |-> TRUE]
        ELSE [entries |-> << <<section[1], section[2],
                                remove_html_tags_and_entities(b.heStr)>> >>,
              failed |-> FALSE]
    ELSE [entries |-> <<>>, failed |-> TRUE]


\* ------------------------------------------------ get_sefaria_verse_entries
Retries == 5

NoRes == [bound |-> FALSE, status |-> 0, body |-> BadBody]

FetchIdle ==
    /\ f_pc = "idle" /\ subs = 0 /\ sub_i = 0 /\ attempt = 0 /\ res = NoRes
    /\ verse_entries = <<>> /\ origin = <<>> /\ requests = <<>> /\ got200 = <<>>
    /\ reqAtOk = <<>> /\ payloadOf = <<>> /\ parseFailed = <<>> /\ sleeps = <<>>

\* line 141, and the first sub-reference of ref.split(','), which is never empty
FetchInit ==
    /\ f_pc = "retry"
    /\ subs \in 1..MaxSubs
    /\ sub_i = 1
    /\ attempt = 0
    /\ res = NoRes
    /\ verse_entries = <<>>
    /\ origin = <<>>
    /\ requests = [s \in 1..subs |-> 0]
    /\ got200 = [s \in 1..subs |-> FALSE]
    /\ reqAtOk = [s \in 1..subs |-> 0]
    /\ payloadOf = [s \in 1..subs |-> BadBody]
    /\ parseFailed = [s \in 1..subs |-> FALSE]
    /\ sleeps = <<>>

AttemptsLeftMut(a) == a <= Retries

\* line 145: for attempt in range(retries)
AttemptsLeft(a) == a < Retries

ExhaustedGoesToMut == "parse"

\* lines 153-155: the else of the retry loop ends in continue
ExhaustedGoesTo == "continue"

\* line 142: the next sub-reference, or line 169 after the last one
NextSubPc == IF sub_i + 1 > subs THEN "returned" ELSE "retry"

RECURSIVE Pow2(_)
\* 2 ** attempt
Pow2(a) == IF a = 0 THEN 1 ELSE 2 * Pow2(a - 1)

\* lines 147-149: the request returns status 200 and the retry loop breaks
GetOk ==
    /\ f_pc = "retry"
    /\ AttemptsLeft(attempt)
    /\ \E b \in Bodies :
        /\ res' = [bound |-> TRUE, status |-> 200, body |-> b]
        /\ payloadOf' = [payloadOf EXCEPT ![sub_i] = b]
    /\ requests' = [requests EXCEPT ![sub_i] = @ + 1]
    /\ reqAtOk' = [reqAtOk EXCEPT ![sub_i] = IF got200[sub_i] THEN @ ELSE requests[sub_i] + 1]
    /\ got200' = [got200 EXCEPT ![sub_i] = TRUE]
    /\ f_pc' = "parse"
    /\ UNCHANGED <<subs, sub_i, attempt, verse_entries, origin, parseFailed, sleeps>>
    /\ UNCHANGED <<allocVars, asmVars>>

\* lines 147-150: the request returns another status; sleep, next attempt
GetBadStatus ==
    /\ f_pc = "retry"
    /\ AttemptsLeft(attempt)
    /\ res' = [bound |-> TRUE, status |-> 500, body |-> BadBody]
    /\ requests' = [requests EXCEPT ![sub_i] = @ + 1]
    /\ sleeps' = Append(sleeps, <<sub_i, attempt, Pow2(attempt)>>)
    /\ attempt' = attempt + 1
    /\ UNCHANGED <<f_pc, subs, sub_i, verse_entries, origin, got200, reqAtOk,
                   payloadOf, parseFailed>>
    /\ UNCHANGED <<allocVars, asmVars>>

\* lines 147, 151-152: the request raises; res keeps its value; sleep, next attempt
GetRaises ==
    /\ f_pc = "retry"
    /\ AttemptsLeft(attempt)
    /\ requests' = [requests EXCEPT ![sub_i] = @ + 1]
    /\ sleeps' = Append(sleeps, <<sub_i, attempt, Pow2(attempt)>>)
    /\ attempt' = attempt + 1
    /\ UNCHANGED <<f_pc, subs, sub_i, res, verse_entries, origin, got200, reqAtOk,
                   payloadOf, parseFailed>>
    /\ UNCHANGED <<allocVars, asmVars>>

\* lines 153-155: the retry loop ran out without a break
RetriesExhausted ==
    /\ f_pc = "retry"
    /\ ~AttemptsLeft(attempt)
    /\ IF ExhaustedGoesTo = "continue"
       THEN /\ f_pc' = NextSubPc
            /\ sub_i' = sub_i + 1
            /\ attempt' = 0
       ELSE /\ f_pc' = "parse"
            /\ UNCHANGED <<sub_i, attempt>>
    /\ UNCHANGED <<subs, res, verse_entries, origin, requests, got200, reqAtOk,
                   payloadOf, parseFailed, sleeps>>
    /\ UNCHANGED <<allocVars, asmVars>>

\* lines 156-168 on res, then the next sub-reference
Parse ==
    /\ f_pc = "parse"
    /\ res.bound
    /\ LET r == ParseBody(res.body) IN
        /\ verse_entries' = verse_entries \o r.entries
        /\ origin' = origin \o [j \in 1..Len(r.entries) |-> sub_i]
        /\ parseFailed' = [parseFailed EXCEPT ![sub_i] = r.failed]
    /\ f_pc' = NextSubPc
    /\ sub_i' = sub_i + 1
    /\ attempt' = 0
    /\ UNCHANGED <<subs, res, requests, got200, reqAtOk, payloadOf, sleeps>>
    /\ UNCHANGED <<allocVars, asmVars>>

FetchNext ==
    \/ GetOk
    \/ GetBadStatus
    \/ GetRaises
    \/ RetriesExhausted
    \/ Parse


\* --------------------------------------------- generate_latex_from_schedule
\* A document is a sequence of items <<kind, a, b>>: the preamble, a day's
\* heading (date, reference), a verse line (label, text), the closing line.
\* A file is [exists, text]; the text of the progress file is <<>> (empty)
\* or <<k>> (str(k)).
File(exists, text) == [exists |-> exists, text |-> text]
Absent == File(FALSE, <<>>)

RECURSIVE UniversalNewlines(_)
\* what reading a file opened in text mode does to its text: "\r\n" and a
\* lone "\r" both come back as "\n"
UniversalNewlines(t) ==
    IF t = <<>> THEN <<>>
    ELSE IF Head(t) = "\r"
         THEN <<"\n">> \o UniversalNewlines(
                  IF Len(t) >= 2 /\ t[2] = "\n" THEN Tail(Tail(t)) ELSE Tail(t))
         ELSE <<Head(t)>> \o UniversalNewlines(Tail(t))

\* lines 188-189: f.read() of a document; only the verse lines hold fetched text
ReadDocument(doc) ==
    [j \in 1..Len(doc) |->
        IF doc[j][1] = "line"
        THEN <<doc[j][1], doc[j][2], UniversalNewlines(doc[j][3])>>
        ELSE doc[j]]

\* lines 191-203
Preamble == << <<"pre", <<>>, <<>>>> >>

\* line 212
Heading(row) == <<"sec", <<row.Date>>, row.Bible>>

\* line 216
Line(e) == <<"line", hebrew_number(e[2]), escape_latex_special_chars(e[3])>>

\* line 224
EndDocument == <<"end", <<>>, <<>>>>

\* what get_sefaria_verse_entries may return for a row
FetchResults ==
    { <<>>, << <<3, 15, <<"a">>>>, <<3, 16, <<"_", "\r", "b">>>> >> }

N == Len(df)

AsmIdle ==
    /\ pc = "idle" /\ df = <<>> /\ net = <<>> /\ last = 0 - 1 /\ tex = <<>>
    /\ row_i = 0 /\ verses = <<>> /\ checkpoint = Absent /\ progress = Absent
    /\ tex_file = Absent /\ runs = 0 /\ unclean = FALSE /\ cleanWindow = FALSE
    /\ runFetched = <<>> /\ runEvents = <<>> /\ runStartedBare = FALSE
    /\ runOpenedCkpt = FALSE /\ wroteFinal = FALSE

\* a value of the column "Bible" of df: a text, or the float NaN
Str(t) == [isStr |-> TRUE, text |-> t]
NaN == [isStr |-> FALSE, text |-> <<>>]

\* line 186: read_csv reads an empty cell as NaN, any other cell as its text
ReadCell(cell) == IF cell = <<>> THEN NaN ELSE Str(cell)

\* the schedule file of n days of which the last e are empty (lines 93-116
\* leave only trailing days empty); day j's one unit stands as j - 1
ScheduleRows(n, e) ==
    [j \in 1..n |-> [Date |-> j - 1,
                     Bible |-> JoinUnits(IF j <= n - e THEN <<j - 1>> ELSE <<>>)]]

\* line 186: pd.read_csv(csv_path)
ReadCsv(rows) ==
    [j \in 1..Len(rows) |-> [Date |-> rows[j].Date, Bible |-> ReadCell(rows[j].Bible)]]

\* The first run: a schedule of 1..MaxRows rows, nothing on disk yet.  The
\* fetcher returns the same entries whenever it is asked for the same row; it
\* is never asked for a row without a reference.
AsmInit ==
    /\ pc = "start"
    /\ \E n \in 1..MaxRows : \E e \in 0..n :
        /\ df = ReadCsv(ScheduleRows(n, e))
        /\ net \in [0..(n - 1) -> FetchResults]
        /\ \A k \in (n - e)..(n - 1) : net[k] = <<>>
    /\ last = 0 - 1
    /\ tex = <<>>
    /\ row_i = 0
    /\ verses = <<>>
    /\ checkpoint = Absent
    /\ progress = Absent
    /\ tex_file = Absent
    /\ runs = 1
    /\ unclean = FALSE
    /\ cleanWindow = FALSE
    /\ runFetched = <<>>
    /\ runEvents = <<>>
    /\ runStartedBare = TRUE
    /\ runOpenedCkpt = FALSE
    /\ wroteFinal = FALSE

diskVars == <<checkpoint, progress, tex_file>>
histVars == <<runs, unclean, cleanWindow, runFetched, runEvents, runStartedBare,
              runOpenedCkpt, wroteFinal>>

\* lines 187-203: the text of the checkpoint file, or a fresh preamble
LoadTex(f) == IF f.exists THEN ReadDocument(f.text) ELSE Preamble

\* lines 179-184: int(f.read().strip()) of the progress file, or -1
LoadLast(f) == IF f.exists THEN f.text[1] ELSE 0 - 1

\* lines 179-203: last from the progress file, tex from the checkpoint file
ResumeCheck ==
    /\ pc = "start"
    /\ ~(progress.exists /\ progress.text = <<>>)
    /\ last' = LoadLast(progress)
    /\ tex' = LoadTex(checkpoint)
    /\ row_i' = 0
    /\ pc' = "loop"
    /\ UNCHANGED <<df, net, verses, diskVars, histVars>>
    /\ UNCHANGED <<allocVars, fetchVars>>

\* line 181 on an empty progress file: int('') raises ValueError
ResumeRaises ==
    /\ pc = "start"
    /\ progress.exists /\ progress.text = <<>>
    /\ pc' = "failed"
    /\ UNCHANGED <<df, net, last, tex, row_i, verses, diskVars, histVars>>
    /\ UNCHANGED <<allocVars, fetchVars>>

SkipMut(i, l) == i < l

\* line 206
Skip(i, l) == i <= l

\* lines 205-207: a row already done
SkipRow ==
    /\ pc = "loop"
    /\ row_i < N
    /\ Skip(row_i, last)
    /\ row_i' = row_i + 1
    /\ UNCHANGED <<pc, df, net, last, tex, verses, diskVars, histVars>>
    /\ UNCHANGED <<allocVars, fetchVars>>

\* lines 209-214: the heading, then the fetch of the row's reference
Fetch ==
    /\ pc = "loop"
    /\ row_i < N
    /\ ~Skip(row_i, last)
    /\ df[row_i + 1].Bible.isStr
    /\ tex' = Append(tex, Heading(df[row_i + 1]))
    /\ verses' = net[row_i]
    /\ runFetched' = Append(runFetched, row_i)
    /\ runEvents' = Append(runEvents, <<"fetch", row_i>>)
    /\ pc' = "format"
    /\ UNCHANGED <<df, net, last, row_i, diskVars, runs, unclean, cleanWindow,
                   runStartedBare, runOpenedCkpt, wroteFinal>>
    /\ UNCHANGED <<allocVars, fetchVars>>

\* an exception leaves generate_latex_from_schedule: the run is over
Raised ==
    /\ pc' = "raised"
    /\ unclean' = (unclean \/ ~cleanWindow)
    /\ UNCHANGED <<df, net, last, row_i, verses, runs, cleanWindow, runFetched,
                   runEvents, runStartedBare, runOpenedCkpt, wroteFinal>>

FetchRaisesMut ==
    /\ pc = "loop"
    /\ row_i < N
    /\ ~Skip(row_i, last)
    /\ ~df[row_i + 1].Bible.isStr
    /\ tex' = Append(tex, Heading(df[row_i + 1]))
    /\ checkpoint' = File(TRUE, <<>>)
    /\ Raised
    /\ UNCHANGED <<progress, tex_file>>
    /\ UNCHANGED <<allocVars, fetchVars>>

\* lines 209-214 on a row whose reference is NaN: the heading is appended,
\* then ref.split(',') of line 142 raises AttributeError, which nothing catches
FetchRaises ==
    /\ pc = "loop"
    /\ row_i < N
    /\ ~Skip(row_i, last)
    /\ ~df[row_i + 1].Bible.isStr
    /\ tex' = Append(tex, Heading(df[row_i + 1]))
    /\ Raised
    /\ UNCHANGED diskVars
    /\ UNCHANGED <<allocVars, fetchVars>>

\* lines 215-216
Format ==
    /\ pc = "format"
    /\ tex' = tex \o [j \in 1..Len(verses) |-> Line(verses[j])]
    /\ pc' = "ckpt_open"
    /\ UNCHANGED <<df, net, last, row_i, verses, diskVars, histVars>>
    /\ UNCHANGED <<allocVars, fetchVars>>

\* line 219: open(checkpoint, "w") truncates the file
OpenCheckpoint ==
    /\ pc = "ckpt_open"
    /\ checkpoint' = File(TRUE, <<>>)
    /\ runOpenedCkpt' = TRUE
    /\ cleanWindow' = FALSE
    /\ pc' = "ckpt_write"
    /\ UNCHANGED <<df, net, last, tex, row_i, verses, progress, tex_file, runs,
                   unclean, runFetched, runEvents, runStartedBare, wroteFinal>>
    /\ UNCHANGED <<allocVars, fetchVars>>

\* line 220 and the close of the file
WriteCheckpoint ==
    /\ pc = "ckpt_write"
    /\ checkpoint' = File(TRUE, tex)
    /\ runEvents' = Append(runEvents, <<"checkpoint", row_i>>)
    /\ pc' = "prog_open"
    /\ UNCHANGED <<df, net, last, tex, row_i, verses, progress, tex_file, runs,
                   unclean, cleanWindow, runFetched, runStartedBare, runOpenedCkpt,
                   wroteFinal>>
    /\ UNCHANGED <<allocVars, fetchVars>>

\* line 221: open(progress, "w") truncates the file
OpenProgress ==
    /\ pc = "prog_open"
    /\ progress' = File(TRUE, <<>>)
    /\ pc' = "prog_write"
    /\ UNCHANGED <<df, net, last, tex, row_i, verses, checkpoint, tex_file, histVars>>
    /\ UNCHANGED <<allocVars, fetchVars>>

ProgressValueMut(i) == 0

\* line 222: str(i)
ProgressValue(i) == i

\* line 222 and the close of the file; the loop goes to the next row
WriteProgress ==
    /\ pc = "prog_write"
    /\ progress' = File(TRUE, <<ProgressValue(row_i)>>)
    /\ runEvents' = Append(runEvents, <<"progress", ProgressValue(row_i)>>)
    /\ cleanWindow' = (row_i < N - 1)
    /\ row_i' = row_i + 1
    /\ pc' = "loop"
    /\ UNCHANGED <<df, net, last, tex, verses, checkpoint, tex_file, runs, unclean,
                   runFetched, runStartedBare, runOpenedCkpt, wroteFinal>>
    /\ UNCHANGED <<allocVars, fetchVars>>

\* lines 224-225: the loop has ended; open(tex_path, "w") truncates the file
OpenFinal ==
    /\ pc = "loop"
    /\ row_i = N
    /\ tex' = Append(tex, EndDocument)
    /\ tex_file' = File(TRUE, <<>>)
    /\ pc' = "final_write"
    /\ UNCHANGED <<df, net, last, row_i, verses, checkpoint, progress, histVars>>
    /\ UNCHANGED <<allocVars, fetchVars>>

\* line 226 and the close of the file
WriteFinal ==
    /\ pc = "final_write"
    /\ tex_file' = File(TRUE, tex)
    /\ wroteFinal' = TRUE
    /\ pc' = "cleanup"
    /\ UNCHANGED <<df, net, last, tex, row_i, verses, checkpoint, progress, runs,
                   unclean, cleanWindow, runFetched, runEvents, runStartedBare, runOpenedCkpt>>
    /\ UNCHANGED <<allocVars, fetchVars>>

RemoveMut(f) == f

\* os.remove
Remove(f) == Absent

\* line 229
RemoveCheckpoint ==
    /\ pc = "cleanup"
    /\ checkpoint' = IF checkpoint.exists THEN Remove(checkpoint) ELSE checkpoint
    /\ pc' = "cleanup2"
    /\ UNCHANGED <<df, net, last, tex, row_i, verses, progress, tex_file, histVars>>
    /\ UNCHANGED <<allocVars, fetchVars>>

\* lines 230-232
RemoveProgress ==
    /\ pc = "cleanup2"
    /\ progress' = IF progress.exists THEN Remove(progress) ELSE progress
    /\ pc' = "done"
    /\ UNCHANGED <<df, net, last, tex, row_i, verses, checkpoint, tex_file, histVars>>
    /\ UNCHANGED <<allocVars, fetchVars>>

\* The process is terminated: its memory is gone, the files stay.
Killed ==
    /\ pc' = "crashed"
    /\ last' = 0 - 1
    /\ tex' = <<>>
    /\ row_i' = 0
    /\ verses' = <<>>
    /\ unclean' = (unclean \/ ~cleanWindow)
    /\ UNCHANGED <<df, net, runs, cleanWindow, runFetched, runEvents, runStartedBare,
                   runOpenedCkpt, wroteFinal>>

\* termination anywhere but inside a write of a document
Crash ==
    /\ pc \in {"start", "loop", "format", "ckpt_open", "prog_open", "prog_write",
               "cleanup", "cleanup2"}
    /\ Killed
    /\ UNCHANGED diskVars
    /\ UNCHANGED <<allocVars, fetchVars>>

\* termination between line 219 and the close of the file: any prefix of the
\* document may have reached the disk
CrashInCheckpointWrite ==
    /\ pc = "ckpt_write"
    /\ \E n \in 0..Len(tex) : checkpoint' = File(TRUE, SubSeq(tex, 1, n))
    /\ Killed
    /\ UNCHANGED <<progress, tex_file>>
    /\ UNCHANGED <<allocVars, fetchVars>>

\* termination between line 225 and the close of the file
CrashInFinalWrite ==
    /\ pc = "final_write"
    /\ \E n \in 0..Len(tex) : tex_file' = File(TRUE, SubSeq(tex, 1, n))
    /\ Killed
    /\ UNCHANGED <<checkpoint, progress>>
    /\ UNCHANGED <<allocVars, fetchVars>>

\* a write raises OSError (no space left, an input/output error) after the
\* file was opened: the exception leaves generate_latex_from_schedule
WriteFailed ==
    /\ pc' = "io_failed"
    /\ UNCHANGED <<df, net, last, tex, row_i, verses, histVars>>

\* line 220 raises: less than the whole document has reached the file that
\* line 219 truncated
CheckpointWriteFails ==
    /\ pc = "ckpt_write"
    /\ \E n \in 0..(Len(tex) - 1) : checkpoint' = File(TRUE, SubSeq(tex, 1, n))
    /\ WriteFailed
    /\ UNCHANGED <<progress, tex_file>>
    /\ UNCHANGED <<allocVars, fetchVars>>

\* line 222 raises: the file that line 221 truncated stays empty
ProgressWriteFails ==
    /\ pc = "prog_write"
    /\ WriteFailed
    /\ UNCHANGED diskVars
    /\ UNCHANGED <<allocVars, fetchVars>>

\* line 226 raises: less than the whole document has reached the file that
\* line 225 truncated
FinalWriteFails ==
    /\ pc = "final_write"
    /\ \E n \in 0..(Len(tex) - 1) : tex_file' = File(TRUE, SubSeq(tex, 1, n))
    /\ WriteFailed
    /\ UNCHANGED <<checkpoint, progress>>
    /\ UNCHANGED <<allocVars, fetchVars>>

\* the ways a run ends
EndPcs == {"done", "crashed", "failed", "raised", "io_failed"}

\* the operator runs the program again: a new process, the same files
Restart ==
    /\ pc \in EndPcs
    /\ runs < MaxRuns
    /\ runs' = runs + 1
    /\ pc' = "start"
    /\ last' = 0 - 1
    /\ tex' = <<>>
    /\ row_i' = 0
    /\ verses' = <<>>
    /\ unclean' = (unclean \/ pc = "io_failed")
    /\ runFetched' = <<>>
    /\ runEvents' = <<>>
    /\ runStartedBare' = (~checkpoint.exists /\ ~progress.exists)
    /\ runOpenedCkpt' = FALSE
    /\ wroteFinal' = FALSE
    /\ UNCHANGED <<df, net, diskVars, cleanWindow>>
    /\ UNCHANGED <<allocVars, fetchVars>>

AsmNext ==
    \/ ResumeCheck
    \/ ResumeRaises
    \/ SkipRow
    \/ Fetch
    \/ FetchRaises
    \/ Format
    \/ OpenCheckpoint
    \/ WriteCheckpoint
    \/ OpenProgress
    \/ WriteProgress
    \/ OpenFinal
    \/ WriteFinal
    \/ RemoveCheckpoint
    \/ RemoveProgress
    \/ Crash
    \/ CrashInCheckpointWrite
    \/ CrashInFinalWrite
    \/ CheckpointWriteFails
    \/ ProgressWriteFails
    \/ FinalWriteFails
    \/ Restart

\* ---------------------------------------------------------- specifications
InitAlloc == AllocInit /\ FetchIdle /\ AsmIdle

SpecAlloc == InitAlloc /\ [][AllocNext]_vars

InitFetch == FetchInit /\ AllocIdle /\ AsmIdle

SpecFetch == InitFetch /\ [][FetchNext]_vars

Init == AsmInit /\ AllocIdle /\ FetchIdle

Next == AsmNext

Spec == Init /\ [][Next]_vars

\* the steps of a first run that nothing ends from outside: no row to skip,
\* no termination, no failing write
RunNext ==
    \/ ResumeCheck
    \/ Fetch
    \/ FetchRaises
    \/ Format
    \/ OpenCheckpoint
    \/ WriteCheckpoint
    \/ OpenProgress
    \/ WriteProgress
    \/ OpenFinal
    \/ WriteFinal
    \/ RemoveCheckpoint
    \/ RemoveProgress

\* every step of the run is taken as soon as nothing else happens
SpecRun == Init /\ [][RunNext]_vars /\ WF_vars(RunNext)


\* ------------------------------------------------------------------ claims
Sizes(ps) == [j \in 1..Len(ps) |-> Len(ps[j])]

\* C1: for every unit list of length u and every day count d > 0 the run
\* returns (it never raises); the d portions, concatenated in day order, are
\* the unit list; day i (0-based) holds u div d + 1 units when i < u mod d and
\* u div d units otherwise; the exported rows are the portions.
AllocationPartitions ==
    total_days > 0 =>
        /\ a_pc # "raised"
        /\ a_pc = "returned" =>
            /\ Len(portions) = total_days
            /\ Flatten(portions) = all_verses
            /\ \A d \in 0..(total_days - 1) :
                Len(portions[d + 1]) =
                    (Len(all_verses) \div total_days)
                    + (IF d < Len(all_verses) % total_days THEN 1 ELSE 0)
            /\ csv.exists
            /\ Len(csv.rows) = total_days
            /\ \A j \in 1..total_days :
                /\ csv.rows[j].Bible = JoinUnits(portions[j])
                /\ csv.rows[j].Count = Len(portions[j])

\* C1 witness: 10 units over 3 days give sizes 4, 3, 3 and units 1-4 first
AllocationTenOverThree ==
    /\ a_pc = "returned"
    /\ Len(all_verses) = 10
    /\ total_days = 3
    /\ Sizes(portions) = <<4, 3, 3>>
    /\ portions[1] = <<1, 2, 3, 4>>

\* C2: for every day count d <= 0 the allocation never returns normally and
\* no schedule file is written.
NonPositiveDaysRaise ==
    total_days <= 0 => (a_pc # "returned" /\ ~csv.exists)


\* ---- the fetcher
\* the entries of verse_entries that sub-reference s appended, in order
RECURSIVE EntriesFromUpTo(_, _)
EntriesFromUpTo(s, n) ==
    IF n = 0 THEN <<>>
    ELSE EntriesFromUpTo(s, n - 1)
         \o (IF origin[n] = s THEN <<verse_entries[n]>> ELSE <<>>)

EntriesFrom(s) == EntriesFromUpTo(s, Len(verse_entries))

\* a body of the declared shape: sections = [major, minor], he a text or a
\* sequence of texts
WellFormed(b) ==
    /\ b.kind = "obj"
    /\ b.hasSections
    /\ Len(b.sections) = 2
    /\ \/ b.heKind = "str"
       \/ b.heKind = "list" /\ \A j \in 1..Len(b.heList) : b.heList[j].isText

\* the units a body of the declared shape stands for
DeclaredUnits(b) ==
    IF b.heKind = "str"
    THEN << <<b.sections[1], b.sections[2], remove_html_tags_and_entities(b.heStr)>> >>
    ELSE [j \in 1..Len(b.heList) |->
            <<b.sections[1], b.sections[2] + (j - 1),
              remove_html_tags_and_entities(b.heList[j].text)>>]

\* C8: when the fetch returns, the entries stand in sub-reference order; a
\* sub-reference whose every attempt failed contributed none; one that got a
\* success response with a body of the declared shape contributed exactly its
\* units, whatever happened to the other sub-references.
FetchDegradation ==
    f_pc = "returned" =>
        /\ Len(origin) = Len(verse_entries)
        /\ \A j \in 1..(Len(origin) - 1) : origin[j] <= origin[j + 1]
        /\ \A s \in 1..subs :
            /\ ~got200[s] => EntriesFrom(s) = <<>>
            /\ (got200[s] /\ WellFormed(payloadOf[s])) =>
                    EntriesFrom(s) = DeclaredUnits(payloadOf[s])

\* C8 witness: the first sub-reference ran out of attempts, the second one's
\* two units are the whole result
FetchOneExhaustedOneServed ==
    /\ f_pc = "returned"
    /\ subs = 2
    /\ ~got200[1]
    /\ got200[2]
    /\ verse_entries = << <<3, 7, <<"a">>>>, <<3, 8, <<"a", "_">>>> >>

RECURSIVE SumTo(_, _)
SumTo(f, n) == IF n = 0 THEN 0 ELSE f[n] + SumTo(f, n - 1)

\* C9: at most Retries requests per sub-reference, none after its first 200
\* response; a failed attempt of either kind uses one request and one turn of
\* the retry loop; at most subs * Retries requests in all; until it returns
\* the fetch is at a sub-reference of the list with a turn of the loop or a
\* parse of the 200 response to take, so it is never stuck.
BoundedRetries ==
    /\ \A s \in 1..subs :
        /\ requests[s] <= Retries
        /\ got200[s] => requests[s] = reqAtOk[s]
    /\ (f_pc = "retry" /\ sub_i <= subs) => requests[sub_i] = attempt
    /\ SumTo(requests, subs)
         = Len(sleeps) + Cardinality({s \in 1..subs : got200[s]})
    /\ SumTo(requests, subs) <= subs * Retries
    /\ f_pc = "retry" => (sub_i \in 1..subs /\ attempt \in 0..Retries)
    /\ f_pc = "parse" => (sub_i \in 1..subs /\ res.bound /\ res.status = 200)
    /\ f_pc = "returned" => sub_i = subs + 1

\* C9 witness: all five attempts of the first sub-reference failed, the
\* second one was served at its third request
FetchFiveThenThree ==
    /\ f_pc = "returned"
    /\ subs = 2
    /\ requests[1] = Retries /\ ~got200[1]
    /\ requests[2] = 3 /\ got200[2]

\* C10: when the fetch returns, a sub-reference whose payload handling raised
\* has no entry in the result.
ParseFailureYieldsNothing ==
    f_pc = "returned" =>
        \A s \in 1..subs : parseFailed[s] => EntriesFrom(s) = <<>>

\* the sub-references whose handling is over
Handled(s) == s < sub_i

\* C17 as stated: a wait after failed attempt a of a sub-reference lasts 2^a
\* and is followed by attempt a+1 of that sub-reference, so no wait follows
\* the last of the Retries attempts and a sub-reference has at most
\* Retries - 1 waits.
BackoffOnlyBetweenAttempts ==
    /\ \A j \in 1..Len(sleeps) :
        /\ sleeps[j][3] = Pow2(sleeps[j][2])
        /\ sleeps[j][2] + 1 < Retries
    /\ \A s \in 1..subs :
        Cardinality({j \in 1..Len(sleeps) : sleeps[j][1] = s}) <= Retries - 1

\* C18: a sub-reference served a body with sections = [major, minor] has,
\* once handled, one entry (major, minor + j, clean(text_j)) per text of a
\* sequence of texts, in sequence order, and exactly the entry
\* (major, minor, clean(text)) for a single text.
ResponseShape ==
    \A s \in 1..subs :
        (Handled(s) /\ got200[s] /\ WellFormed(payloadOf[s])) =>
            LET b == payloadOf[s]
                e == EntriesFrom(s)
            IN IF b.heKind = "list"
               THEN /\ Len(e) = Len(b.heList)
                    /\ \A j \in 1..Len(e) :
                        e[j] = <<b.sections[1], b.sections[2] + (j - 1),
                                 remove_html_tags_and_entities(b.heList[j].text)>>
               ELSE e = << <<b.sections[1], b.sections[2],
                             remove_html_tags_and_entities(b.heStr)>> >>

\* C18 witness: a sequence of two texts at 3:7 gave units 7 and 8, a single
\* text at 3:7 gave one unit 7
FetchSequenceThenSingle ==
    /\ f_pc = "returned"
    /\ subs = 2
    /\ payloadOf[1].heKind = "list"
    /\ payloadOf[2].heKind = "str"
    /\ verse_entries = << <<3, 7, <<"a">>>>, <<3, 8, <<"a", "_">>>>,
                          <<3, 7, <<"a", "_">>>> >>

\* a body that parses as JSON but is not of the declared shape
Malformed(b) ==
    /\ b.kind = "obj"
    /\ \/ ~b.hasSections
       \/ b.heKind = "missing"
       \/ Len(b.sections) # 2

\* C19: a sub-reference served a body without "sections", without "he" or
\* with sections not of the form [major, minor] has no entry in the result.
MalformedYieldsNothing ==
    \A s \in 1..subs :
        (Handled(s) /\ got200[s] /\ Malformed(payloadOf[s])) =>
            EntriesFrom(s) = <<>>

\* ---- the assembler
RECURSIVE Sections(_)
\* the sections of rows 0..k
Sections(k) ==
    IF k < 0 THEN <<>>
    ELSE Sections(k - 1) \o <<Heading(df[k + 1])>>
         \o [j \in 1..Len(net[k]) |-> Line(net[k][j])]

\* the document a run that nothing interrupts writes to tex_path
UninterruptedDoc == Preamble \o Sections(N - 1) \o <<EndDocument>>

IsSection(item) == item[1] = "sec"

\* the row indexes of the headings of a document, in order
SectionDays(doc) ==
    LET secs == SelectSeq(doc, IsSection)
    IN [j \in 1..Len(secs) |-> secs[j][2][1]]

UpTo(k) == [j \in 1..(k + 1) |-> j - 1]

Ended == pc \in EndPcs

BothAbsent == ~checkpoint.exists /\ ~progress.exists

\* C3: when every termination so far fell after both writes of some day
\* i <= N-2 and before the checkpoint write of day i+1, the document a run
\* writes to tex_path is the one an uninterrupted run writes.
ResumeEqualsUninterrupted ==
    (wroteFinal /\ ~unclean) => tex_file = File(TRUE, UninterruptedDoc)

\* C3 witness: a second run that resumed after day 0 of 3 has finished
ResumedAfterDayZero ==
    /\ pc = "done"
    /\ N = 3
    /\ runs = 2
    /\ last = 0
    /\ ~unclean
    /\ wroteFinal

\* C4: what a run loads at its start holds exactly the sections of rows
\* 0..last, each once.
LoadedStateIsWholeDays ==
    (pc = "loop" /\ row_i = 0) => SectionDays(tex) = UpTo(last)

\* C5: the document a run writes to tex_path holds the section of every row
\* 0..N-1 once, in ascending order, wherever earlier runs were terminated.
FinalHoldsEachDayOnce ==
    wroteFinal => SectionDays(tex_file.text) = UpTo(N - 1)

\* C6 as stated: after a run has ended both markers are absent iff the run
\* wrote the final document with all N days.
MarkersAbsentIffCompleted ==
    Ended =>
        (BothAbsent <=>
            (/\ wroteFinal
             /\ \A d \in 0..(N - 1) :
                    \E j \in 1..Len(SectionDays(tex_file.text)) :
                        SectionDays(tex_file.text)[j] = d))

\* C6 amended: after a run has ended both markers are absent iff the run
\* reached the end of the cleanup, or it found neither marker at its start and
\* was terminated before it opened the checkpoint file; a run that reached the
\* end of the cleanup has written tex_path.
MarkersAfterRun ==
    /\ Ended => (BothAbsent <=> (pc = "done" \/ (runStartedBare /\ ~runOpenedCkpt)))
    /\ pc = "done" => wroteFinal

\* C6 witness: a run that checkpointed has ended normally, no marker is left
RunEndedWithoutMarkers ==
    /\ pc = "done"
    /\ runOpenedCkpt
    /\ wroteFinal
    /\ BothAbsent

Loaded == pc \in {"loop", "format", "ckpt_open", "ckpt_write", "prog_open",
                  "prog_write", "final_write", "cleanup", "cleanup2", "done",
                  "raised", "io_failed"}

\* C7: a run that loaded progress index last fetches rows last+1, last+2, ...
\* in this order and no other, and every heading it appends is of a row > last
\* (a step to "crashed" or "start" is the end of the process, not its step).
NoRefetchOfCompletedDays ==
    /\ [](Loaded => runFetched = [j \in 1..Len(runFetched) |-> last + j])
    /\ [][(Loaded /\ pc' \notin {"crashed", "start"} /\ tex' # tex) =>
            /\ Len(tex') > Len(tex)
            /\ SubSeq(tex', 1, Len(tex)) = tex
            /\ \A j \in (Len(tex) + 1)..Len(tex') :
                    IsSection(tex'[j]) => tex'[j][2][1] > last]_vars

\* C7 witness: a run that loaded progress index 1 has fetched row 2 first
ResumedRunFetchesNextRow ==
    /\ pc = "format"
    /\ last = 1
    /\ runFetched = <<2>>

\* a row of the reloaded schedule whose day holds no unit
EmptyDay(k) == ~df[k + 1].Bible.isStr

\* C11: a day without units is assembled like any other day: its heading is
\* appended without lines, its checkpoint and progress are written and the
\* next day follows; no run ends in an exception at such a day.
EmptyDaysAssemble ==
    ~(pc = "raised" /\ row_i < N /\ EmptyDay(row_i))

\* the values of the progress writes of the current run, in order
IsProgressEvent(ev) == ev[1] = "progress"
ProgressWritten ==
    LET evs == SelectSeq(runEvents, IsProgressEvent)
    IN [j \in 1..Len(evs) |-> evs[j][2]]

\* C12: when the fetch of a day returns nothing (every sub-reference failed
\* on every attempt) the formatting adds no line and goes on to the
\* checkpoint write; the progress write of that day finds the checkpoint
\* ending in the day's bare heading, writes the day's index and the next row
\* follows; whatever the fetches return, a run that nothing terminates
\* reaches the write of tex_path with the progress values 0..N-1 written.
NetworkFailuresAbsorbed ==
    /\ [][(pc = "format" /\ verses = <<>>) =>
            (pc' = "ckpt_open" /\ tex' = tex)]_vars
    /\ [][(pc = "prog_write" /\ verses = <<>>) =>
            /\ checkpoint.text = tex
            /\ tex[Len(tex)] = Heading(df[row_i + 1])
            /\ progress' = File(TRUE, <<row_i>>)
            /\ row_i' = row_i + 1
            /\ pc' = "loop"]_vars
    /\ <>(pc = "final_write" /\ ProgressWritten = UpTo(N - 1))

\* what does hold of C12: the steps of a day whose fetch returned nothing, and
\* the arrival at the write of tex_path when no row is an empty day
AbsorbedWhenNoDayIsEmpty ==
    /\ [][(pc = "format" /\ verses = <<>>) =>
            (pc' = "ckpt_open" /\ tex' = tex)]_vars
    /\ [][(pc = "prog_write" /\ verses = <<>>) =>
            /\ checkpoint.text = tex
            /\ tex[Len(tex)] = Heading(df[row_i + 1])
            /\ progress' = File(TRUE, <<row_i>>)
            /\ row_i' = row_i + 1
            /\ pc' = "loop"]_vars
    /\ (\A k \in 0..(N - 1) : ~EmptyDay(k)) =>
            <>(pc = "final_write" /\ ProgressWritten = UpTo(N - 1))

\* both fetches of a two-row schedule returned nothing and the run is at the
\* write of tex_path
RunOfFailedFetchesFinalizes ==
    /\ pc = "final_write"
    /\ N = 2
    /\ net[0] = <<>> /\ net[1] = <<>>
    /\ ProgressWritten = <<0, 1>>
    /\ tex = Preamble \o <<Heading(df[1]), Heading(df[2]), EndDocument>>

\* the checkpoint and progress files as the completed day k leaves them
\* (neither file when no day is completed)
PairOfDay(k) ==
    IF k < 0 THEN BothAbsent
    ELSE /\ progress = File(TRUE, <<k>>)
         /\ checkpoint.exists
         /\ checkpoint.text # <<>>
         /\ checkpoint.text[1] = Preamble[1]
         /\ SectionDays(checkpoint.text) = UpTo(k)

\* C13: when a write of the checkpoint, of the progress or of tex_path fails
\* at day i in a run whose storage was consistent, the run is over and the
\* checkpoint and progress files are the pair of day i-1.
PersistenceFailureKeepsPair ==
    (pc = "io_failed" /\ ~unclean) => PairOfDay(row_i - 1)

\* a document with the section of every row and the closing line
Complete(doc) ==
    /\ doc # <<>>
    /\ doc[Len(doc)] = EndDocument
    /\ \A d \in 0..(N - 1) :
        \E j \in 1..Len(SectionDays(doc)) : SectionDays(doc)[j] = d

\* C14: every completed write of tex_path leaves a document with the sections
\* of all N rows and the closing line, and a run opens tex_path for writing
\* over such a document only with such a document to write.
FinalNeverPartial ==
    /\ [](wroteFinal => Complete(tex_file.text))
    /\ [][(pc = "loop" /\ pc' = "final_write" /\ Complete(tex_file.text)) =>
            Complete(tex')]_vars

EventKind(j) == <<"fetch", "checkpoint", "progress">>[((j - 1) % 3) + 1]

\* C15: the events of a run are fetch(i), checkpoint(i), progress(i),
\* fetch(i+1), ... for consecutive rows i; the checkpoint written for row i
\* ends in the section of row i; the progress values written are consecutive.
StrictDayOrder ==
    /\ [](\A j \in 1..Len(runEvents) :
            runEvents[j] = <<EventKind(j), runEvents[1][2] + ((j - 1) \div 3)>>)
    /\ [](\A j \in 1..(Len(ProgressWritten) - 1) :
            ProgressWritten[j + 1] = ProgressWritten[j] + 1)
    /\ [][(pc = "ckpt_write" /\ pc' = "prog_open") =>
            LET days == SectionDays(checkpoint'.text)
            IN days # <<>> /\ days[Len(days)] = row_i]_vars

\* C15 witness: a first run has done rows 0 and 1 and is back at the loop head
TwoDaysInOrder ==
    /\ pc = "loop"
    /\ runs = 1
    /\ row_i = 2
    /\ runEvents = << <<"fetch", 0>>, <<"checkpoint", 0>>, <<"progress", 0>>,
                      <<"fetch", 1>>, <<"checkpoint", 1>>, <<"progress", 1>> >>

\* C16: the steps of a day before its checkpoint write leave the three files
\* alone; an exception in them ends the run; in a first run the files are
\* then those of the day before: the checkpoint with rows 0..i-1 and the
\* progress i-1, or no file when i = 0, and no tex_path.
ExceptionLeavesStorage ==
    /\ [][(pc \in {"loop", "format"} /\ pc' \in {"loop", "format", "ckpt_open", "raised"})
            => UNCHANGED diskVars]_vars
    /\ [][pc = "raised" => pc' = "start"]_vars
    /\ []((pc = "raised" /\ runs = 1) =>
            /\ tex_file = Absent
            /\ IF row_i = 0 THEN BothAbsent
               ELSE /\ checkpoint = File(TRUE, Preamble \o Sections(row_i - 1))
                    /\ progress = File(TRUE, <<row_i - 1>>))

\* C16 witness: the fetch of row 1 raised in a first run; the files are those
\* of row 0
RaisedAtDayOne ==
    /\ pc = "raised"
    /\ runs = 1
    /\ row_i = 1
    /\ progress = File(TRUE, <<0>>)
    /\ SectionDays(checkpoint.text) = <<0>>

====
